---- MODULE Spec2Model ----
(***************************************************************************)
(* SCORMint (src/index.js): the SCORM adapter class, the host LMS API      *)
(* objects it talks to and the window hierarchy it searches.               *)
(***************************************************************************)
EXTENDS Integers, Sequences, FiniteSets, TLC

(***************************************************************************)
(* JavaScript values.  Every value is a record [t, n, s]: t is the         *)
(* typeof-like tag, n the payload of numbers/booleans (and the window an   *)
(* API object hangs on), s the payload of strings (and the slot name of an *)
(* API object).                                                            *)
(***************************************************************************)
Str(x) == [t |-> "string", n |-> 0, s |-> x]
Num(x) == [t |-> "number", n |-> x, s |-> ""]
Bool(b) == [t |-> "boolean", n |-> IF b THEN 1 ELSE 0, s |-> ""]
Null == [t |-> "null", n |-> 0, s |-> ""]
Undefined == [t |-> "undefined", n |-> 0, s |-> ""]
ApiObject(c, slot) == [t |-> "object", n |-> c, s |-> slot]

\* ToBoolean
Truthy(v) ==
  CASE v.t = "string" -> v.s # ""
    [] v.t = "number" -> v.n # 0
    [] v.t = "boolean" -> v.n = 1
    [] v.t = "object" -> TRUE
    [] OTHER -> FALSE

Digit == <<"0", "1", "2", "3", "4", "5", "6", "7", "8", "9">>

RECURSIVE NatToString(_)
NatToString(x) ==
  IF x < 10 THEN Digit[x + 1]
  ELSE NatToString(x \div 10) \o Digit[(x % 10) + 1]

\* String(value) / value.toString() on a value that has one
JSString(v) ==
  CASE v.t = "string" -> v.s
    [] v.t = "number" -> NatToString(v.n)
    [] v.t = "boolean" -> (IF v.n = 1 THEN "true" ELSE "false")
    [] v.t = "null" -> "null"
    [] v.t = "undefined" -> "undefined"
    [] OTHER -> "[object Object]"

(***************************************************************************)
(* Program constants                                                       *)
(***************************************************************************)
VERSION_1_2 == "1.2"
VERSION_2004 == "2004"
SearchDepth == 10

(***************************************************************************)
(* Bounds                                                                  *)
(***************************************************************************)
NCtx == 2          \* window-like contexts; context 1 is the global `window`
MaxSlots == 1      \* API slots present in the hierarchy at one time
MaxSearchSlots == 2 \* API slots present when findAPI is stepped
MaxWindows == 2    \* length of a list handed to findAPI

Ctx == 1 .. NCtx
GlobalWindow == 1
NoWindow == 0      \* a null window reference
SlotNames == {"API", "API_1484_11"}

VARIABLES
  constructed,   \* new SCORM(...) has returned an instance
  scorm,         \* the instance's fields
  lms,           \* the host LMS behind the API objects
  slots,         \* which window exposes which API slot
  parent,        \* window.parent of every window
  opener,        \* window.top.opener
  lastOp, args,  \* the last call made by the caller and its arguments
  ret, raised,   \* what it returned / the error it threw
  calls,         \* the host primitives it invoked, in order
  pc, windows, idx, attempts, api1_2, api2004, passes
                 \* position and locals of a findAPI call that is stepped

vars == <<constructed, scorm, lms, slots, parent, opener, lastOp, args, ret,
          raised, calls, pc, windows, idx, attempts, api1_2, api2004, passes>>

searchVars == <<pc, windows, idx, attempts, api1_2, api2004, passes>>
envVars == <<slots, parent, opener>>

(***************************************************************************)
(* The window hierarchy                                                    *)
(***************************************************************************)
\* window[slot] for a window that is not null
Slot(sl, c, slot) == IF sl[c][slot] THEN ApiObject(c, slot) ELSE Undefined

SlotCount(sl) == Cardinality({x \in Ctx \X SlotNames : sl[x[1]][x[2]]})

\* c and the windows reached from it by following .parent
RECURSIVE Chain(_, _, _)
Chain(par, c, seen) ==
  IF c = NoWindow \/ c \in seen THEN seen
  ELSE Chain(par, par[c], seen \cup {c})

\* the listed windows and their ancestors
Searched(par, ws) ==
  UNION {Chain(par, ws[k], {}) : k \in 1 .. Len(ws)}

(***************************************************************************)
(* The host LMS.  Every API object of the hierarchy fronts the same        *)
(* session: the data model elements that can be read back (store; the      *)
(* exit and session-time elements are write-only and read as ""), whether  *)
(* a begin-session has been received since the last end-session it         *)
(* answered with success (open), and whether it answered the begin-session *)
(* of that session with a failure (refused).  What the begin-session,      *)
(* end-session and commit primitives answer, and the last error code, are  *)
(* the host's choice (h).                                                  *)
(***************************************************************************)
Keys == {"cmi.core.lesson_status", "cmi.completion_status"}

V1Prims == {"LMSInitialize", "LMSFinish", "LMSGetValue", "LMSSetValue",
            "LMSCommit", "LMSGetLastError", "LMSGetErrorString"}
V2004Prims == {"Initialize", "Terminate", "GetValue", "SetValue",
               "Commit", "GetLastError", "GetErrorString"}

HostResult(l, prim, a, h) ==
  CASE prim \in {"LMSInitialize", "Initialize"} -> h.begin
    [] prim \in {"LMSFinish", "Terminate"} -> h.finish
    [] prim \in {"LMSCommit", "Commit"} -> h.commit
    [] prim \in {"LMSGetLastError", "GetLastError"} -> h.err
    [] prim \in {"LMSGetValue", "GetValue"} ->
         (IF a[1].t = "string" /\ a[1].s \in Keys THEN l.store[a[1].s]
          ELSE Str(""))
    [] prim \in {"LMSSetValue", "SetValue"} -> Str("true")
    [] OTHER -> Str("error")

HostEffect(l, prim, a, h) ==
  CASE prim \in {"LMSInitialize", "Initialize"} ->
         [l EXCEPT !.open = TRUE, !.refused = ~Truthy(h.begin)]
    [] prim \in {"LMSFinish", "Terminate"} ->
         (IF Truthy(h.finish) THEN [l EXCEPT !.open = FALSE, !.refused = FALSE]
          ELSE l)
    [] prim \in {"LMSSetValue", "SetValue"} ->
         (IF a[1].t = "string" /\ a[1].s \in Keys
          THEN [l EXCEPT !.store[a[1].s] = a[2]]
          ELSE l)
    [] OTHER -> l

(***************************************************************************)
(* The adapter's methods.  st = [scorm, lms, calls] is threaded through a  *)
(* call; a method answers [st, ret, raised].                               *)
(***************************************************************************)
Result(st, r, e) == [st |-> st, ret |-> r, raised |-> e]

\* this._api.<prim>(...a): a TypeError when _api is not an object
Invoke(st, prim, a, h) ==
  IF st.scorm.api.t # "object"
  THEN Result(st, Undefined, "TypeError")
  ELSE Result([st EXCEPT !.lms = HostEffect(st.lms, prim, a, h),
                         !.calls = Append(@, [prim |-> prim, a |-> a])],
              HostResult(st.lms, prim, a, h), "none")

isV1(st) == st.scorm.version = Str(VERSION_1_2)

isV2(st) == st.scorm.version = Str(VERSION_2004)

notConnected(st) == Result(st, Null, "none")

\* get() without the connected guard
get_unguarded(st, key, h) ==
  Invoke(st, IF isV1(st) THEN "LMSGetValue" ELSE "GetValue", <<key>>, h)

get(st, key, h) ==
  IF ~st.scorm.connected THEN notConnected(st)
  ELSE Invoke(st, IF isV1(st) THEN "LMSGetValue" ELSE "GetValue", <<key>>, h)

set(st, key, value, h) ==
  IF ~st.scorm.connected THEN notConnected(st)
  ELSE IF isV1(st) THEN Invoke(st, "LMSSetValue", <<key, value>>, h)
  ELSE Invoke(st, "SetValue", <<key, Str(JSString(value))>>, h)

status(st, status_, h) ==
  IF ~st.scorm.connected THEN notConnected(st)
  ELSE LET cmi == IF isV1(st) THEN Str("cmi.core.lesson_status")
                  ELSE Str("cmi.completion_status")
       IN IF status_.t = "undefined" THEN get(st, cmi, h)
          ELSE set(st, cmi, status_, h)

\* save() without the connected guard
save_unguarded(st, h) ==
  Invoke(st, IF isV1(st) THEN "LMSCommit" ELSE "Commit", <<Str("")>>, h)

save(st, h) ==
  IF ~st.scorm.connected THEN notConnected(st)
  ELSE Invoke(st, IF isV1(st) THEN "LMSCommit" ELSE "Commit", <<Str("")>>, h)

lastErrorCode(st, h) ==
  IF ~st.scorm.connected THEN notConnected(st)
  ELSE Invoke(st, IF isV1(st) THEN "LMSGetLastError" ELSE "GetLastError",
              <<>>, h)

errorString(st, code, h) ==
  IF ~st.scorm.connected THEN notConnected(st)
  ELSE IF code.t \in {"null", "undefined"}
  THEN Result(st, Undefined, "TypeError")      \* code.toString()
  ELSE Invoke(st, IF isV1(st) THEN "LMSGetErrorString" ELSE "GetErrorString",
              <<Str(JSString(code))>>, h)

(***************************************************************************)
(* findAPI.  The loop, one piece at a time, then the whole call.           *)
(***************************************************************************)
\* let api1_2 = this.version && this.version !== SCORM.VERSION_1_2
InitialFlag(version, wanted) ==
  IF ~Truthy(version) THEN version ELSE Bool(version # Str(wanted))

\* one pass of the do-body on the loop's `window` (w, NoWindow when null):
\* a slot is read only when its flag is still falsy; reading a property of
\* null is a TypeError
LoopBody(sl, w, a1, a2) ==
  IF ~Truthy(a1) /\ w = NoWindow THEN [a1 |-> a1, a2 |-> a2, threw |-> TRUE]
  ELSE LET n1 == IF Truthy(a1) THEN a1 ELSE Slot(sl, w, "API")
       IN IF ~Truthy(a2) /\ w = NoWindow
          THEN [a1 |-> n1, a2 |-> a2, threw |-> TRUE]
          ELSE [a1 |-> n1,
                a2 |-> IF Truthy(a2) THEN a2 ELSE Slot(sl, w, "API_1484_11"),
                threw |-> FALSE]

\* the loop condition with `attempts <= this._depth`, the increment forgotten
LoopCondition_noIncrement(par, w, att) ==
  IF par[w] = NoWindow \/ par[w] = w THEN [go |-> FALSE, attempts |-> att]
  ELSE [go |-> att <= SearchDepth, attempts |-> att]

\* while (window.parent && window.parent != window && attempts++ <= this._depth)
LoopCondition(par, w, att) ==
  IF par[w] = NoWindow \/ par[w] = w THEN [go |-> FALSE, attempts |-> att]
  ELSE [go |-> att <= SearchDepth, attempts |-> att + 1]

\* the do ... while on one listed window
RECURSIVE DoWhile(_, _, _, _, _, _)
DoWhile(sl, par, w, att, a1, a2) ==
  LET b == LoopBody(sl, w, a1, a2)
      c == LoopCondition(par, w, att)
  IN IF b.threw THEN [a1 |-> b.a1, a2 |-> b.a2, threw |-> TRUE, broke |-> FALSE]
     ELSE IF Truthy(b.a1) /\ Truthy(b.a2)
     THEN [a1 |-> b.a1, a2 |-> b.a2, threw |-> FALSE, broke |-> TRUE]
     ELSE IF c.go THEN DoWhile(sl, par, w, c.attempts, b.a1, b.a2)
     ELSE [a1 |-> b.a1, a2 |-> b.a2, threw |-> FALSE, broke |-> FALSE]

\* both: for (let window of windows), from the k-th listed window on;
\* TRUE when the loop throws
RECURSIVE ForOfThrows(_, _, _, _, _, _)
ForOfThrows(sl, par, ws, k, a1, a2) ==
  IF k > Len(ws) THEN FALSE
  ELSE LET d == DoWhile(sl, par, ws[k], 0, a1, a2)
       IN IF d.threw THEN TRUE
          ELSE IF d.broke THEN FALSE
          ELSE ForOfThrows(sl, par, ws, k + 1, d.a1, d.a2)

\* the code after the loop taking its autodetect branch whatever the version
Resolve_autodetect(sc, sl) ==
  LET n == IF Truthy(Slot(sl, GlobalWindow, "API"))
           THEN [sc EXCEPT !.version = Str(VERSION_1_2),
                           !.api = Slot(sl, GlobalWindow, "API")]
           ELSE IF Truthy(Slot(sl, GlobalWindow, "API_1484_11"))
           THEN [sc EXCEPT !.version = Str(VERSION_2004),
                           !.api = Slot(sl, GlobalWindow, "API_1484_11")]
           ELSE [sc EXCEPT !.api = Undefined]
  IN [scorm |-> n,
      raised |-> IF Truthy(n.api) THEN "none" ELSE "ApiNotFound"]

\* the code after the loop: there `window` is the global window again
Resolve(sc, sl) ==
  IF Truthy(sc.version)
  THEN LET a == IF sc.version = Str(VERSION_1_2)
                THEN Slot(sl, GlobalWindow, "API")
                ELSE Slot(sl, GlobalWindow, "API_1484_11")
       IN [scorm |-> [sc EXCEPT !.api = a],
           raised |-> IF Truthy(a) THEN "none" ELSE "ApiNotFound"]
  ELSE LET n == IF Truthy(Slot(sl, GlobalWindow, "API"))
                THEN [sc EXCEPT !.version = Str(VERSION_1_2),
                                !.api = Slot(sl, GlobalWindow, "API")]
                ELSE IF Truthy(Slot(sl, GlobalWindow, "API_1484_11"))
                THEN [sc EXCEPT !.version = Str(VERSION_2004),
                                !.api = Slot(sl, GlobalWindow, "API_1484_11")]
                ELSE sc
       IN [scorm |-> n,
           raised |-> IF Truthy(n.api) THEN "none" ELSE "ApiNotFound"]

findAPI(st, sl, par, ws) ==
  IF ForOfThrows(sl, par, ws, 1,
                 InitialFlag(st.scorm.version, VERSION_1_2),
                 InitialFlag(st.scorm.version, VERSION_2004))
  THEN Result(st, Undefined, "TypeError")
  ELSE LET r == Resolve(st.scorm, sl)
       IN Result([st EXCEPT !.scorm = r.scorm], Undefined, r.raised)

(***************************************************************************)
(* initialize and terminate                                                *)
(***************************************************************************)
\* the test of the completion status without its 'not attempted' case
NeedsIncomplete_noNotAttempted(completion) ==
  \/ ~Truthy(completion)
  \/ completion = Str("unknown")

NeedsIncomplete(completion) ==
  \/ ~Truthy(completion)
  \/ completion = Str("not attempted")
  \/ completion = Str("unknown")

\* the body of initialize() with findAPI called outside the try
Connect_uncaught(st, sl, par, op, h) ==
    LET f == findAPI(st, sl, par, <<GlobalWindow, op>>)
        b == Invoke(f.st, IF isV1(f.st) THEN "LMSInitialize" ELSE "Initialize",
                    <<Str("")>>, h)
        c == [b.st EXCEPT !.scorm.connected = TRUE]
        g == status(c, Undefined, h)
        s1 == status(g.st, Str("incomplete"), h)
        s2 == save(s1.st, h)
    IN IF f.raised # "none" THEN Result(f.st, Undefined, f.raised)
       ELSE IF b.raised # "none" THEN Result(b.st, Undefined, b.raised)
       ELSE IF ~c.scorm.updateStatusAfterInitialize
       THEN Result(c, Undefined, "none")
       ELSE IF g.raised # "none" THEN Result(g.st, Undefined, g.raised)
       ELSE IF ~NeedsIncomplete(g.ret) THEN Result(g.st, Undefined, "none")
       ELSE IF s1.raised # "none" THEN Result(s1.st, Undefined, s1.raised)
       ELSE Result(s2.st, Undefined, s2.raised)

\* the body of initialize() with `this._connected = connected`
Connect_onSuccessOnly(st, sl, par, op, h) ==
    LET f == findAPI(st, sl, par, <<GlobalWindow, op>>)
        b == Invoke(f.st, IF isV1(f.st) THEN "LMSInitialize" ELSE "Initialize",
                    <<Str("")>>, h)
        c == [b.st EXCEPT !.scorm.connected = Truthy(b.ret)]
        g == status(c, Undefined, h)
        s1 == status(g.st, Str("incomplete"), h)
        s2 == save(s1.st, h)
    IN IF f.raised # "none" THEN Result(f.st, Undefined, "none")
       ELSE IF b.raised # "none" THEN Result(b.st, Undefined, b.raised)
       ELSE IF ~c.scorm.updateStatusAfterInitialize
       THEN Result(c, Undefined, "none")
       ELSE IF g.raised # "none" THEN Result(g.st, Undefined, g.raised)
       ELSE IF ~NeedsIncomplete(g.ret) THEN Result(g.st, Undefined, "none")
       ELSE IF s1.raised # "none" THEN Result(s1.st, Undefined, s1.raised)
       ELSE Result(s2.st, Undefined, s2.raised)

\* the body of initialize() with `this._connected = true` ahead of the try
Connect_connectedFirst(st, sl, par, op, h) ==
    LET f == findAPI(st, sl, par, <<GlobalWindow, op>>)
        b == Invoke(f.st, IF isV1(f.st) THEN "LMSInitialize" ELSE "Initialize",
                    <<Str("")>>, h)
        c == [b.st EXCEPT !.scorm.connected = TRUE]
        g == status(c, Undefined, h)
        s1 == status(g.st, Str("incomplete"), h)
        s2 == save(s1.st, h)
    IN IF f.raised # "none" THEN Result([f.st EXCEPT !.scorm.connected = TRUE], Undefined, "none")
       ELSE IF b.raised # "none" THEN Result(b.st, Undefined, b.raised)
       ELSE IF ~c.scorm.updateStatusAfterInitialize
       THEN Result(c, Undefined, "none")
       ELSE IF g.raised # "none" THEN Result(g.st, Undefined, g.raised)
       ELSE IF ~NeedsIncomplete(g.ret) THEN Result(g.st, Undefined, "none")
       ELSE IF s1.raised # "none" THEN Result(s1.st, Undefined, s1.raised)
       ELSE Result(s2.st, Undefined, s2.raised)

\* the body of initialize() past its `if (this._connected) return`
Connect(st, sl, par, op, h) ==
    LET f == findAPI(st, sl, par, <<GlobalWindow, op>>)
        b == Invoke(f.st, IF isV1(f.st) THEN "LMSInitialize" ELSE "Initialize",
                    <<Str("")>>, h)
        c == [b.st EXCEPT !.scorm.connected = TRUE]
        g == status(c, Undefined, h)
        s1 == status(g.st, Str("incomplete"), h)
        s2 == save(s1.st, h)
    IN IF f.raised # "none" THEN Result(f.st, Undefined, "none")
       ELSE IF b.raised # "none" THEN Result(b.st, Undefined, b.raised)
       ELSE IF ~c.scorm.updateStatusAfterInitialize
       THEN Result(c, Undefined, "none")
       ELSE IF g.raised # "none" THEN Result(g.st, Undefined, g.raised)
       ELSE IF ~NeedsIncomplete(g.ret) THEN Result(g.st, Undefined, "none")
       ELSE IF s1.raised # "none" THEN Result(s1.st, Undefined, s1.raised)
       ELSE Result(s2.st, Undefined, s2.raised)

\* initialize() without the already-connected guard
initialize_unguarded(st, sl, par, op, h) == Connect(st, sl, par, op, h)

initialize(st, sl, par, op, h) ==
  IF st.scorm.connected THEN Result(st, Undefined, "none")
  ELSE Connect(st, sl, par, op, h)

ExitKey(st) == IF isV1(st) THEN Str("cmi.core.exit") ELSE Str("cmi.exit")

\* the exit reason with `||` for `&&` in the test of the completion status
ExitValue_or(st, completion) ==
  IF completion # Str("completed") \/ completion # Str("passed")
  THEN Str("suspend")
  ELSE IF isV1(st) THEN Str("logout") ELSE Str("normal")

ExitValue(st, completion) ==
  IF completion # Str("completed") /\ completion # Str("passed")
  THEN Str("suspend")
  ELSE IF isV1(st) THEN Str("logout") ELSE Str("normal")

\* terminate() with the commit issued after the end-session
terminate_finishFirst(st, h) ==
  IF ~st.scorm.connected THEN notConnected(st)
  ELSE
    LET g == status(st, Undefined, h)
        x == set(g.st, ExitKey(g.st), ExitValue(g.st, g.ret), h)
        u == IF ~st.scorm.updateStatusBeforeTerminate
             THEN Result(st, Undefined, "none")
             ELSE IF g.raised # "none" THEN g ELSE x
        f == Invoke(u.st, IF isV1(u.st) THEN "LMSFinish" ELSE "Terminate",
                    <<Str("")>>, h)
        s == save(f.st, h)
        e == lastErrorCode(s.st, h)
        es == errorString(e.st, e.ret, h)
    IN IF u.raised # "none" THEN Result(u.st, Undefined, u.raised)
       ELSE IF f.raised # "none" THEN Result(f.st, Undefined, f.raised)
       ELSE IF s.raised # "none" THEN Result(s.st, Undefined, s.raised)
       ELSE IF Truthy(f.ret)
       THEN Result([s.st EXCEPT !.scorm.connected = FALSE], Undefined, "none")
       ELSE IF e.raised # "none" THEN Result(e.st, Undefined, e.raised)
       ELSE Result(es.st, Undefined, es.raised)

\* terminate() without the early return on a failed end-session
terminate_alwaysDisconnects(st, h) ==
  IF ~st.scorm.connected THEN notConnected(st)
  ELSE
    LET g == status(st, Undefined, h)
        x == set(g.st, ExitKey(g.st), ExitValue(g.st, g.ret), h)
        u == IF ~st.scorm.updateStatusBeforeTerminate
             THEN Result(st, Undefined, "none")
             ELSE IF g.raised # "none" THEN g ELSE x
        s == save(u.st, h)
        f == Invoke(s.st, IF isV1(s.st) THEN "LMSFinish" ELSE "Terminate",
                    <<Str("")>>, h)
        e == lastErrorCode(f.st, h)
        es == errorString(e.st, e.ret, h)
        off == [es.st EXCEPT !.scorm.connected = FALSE]
    IN IF u.raised # "none" THEN Result(u.st, Undefined, u.raised)
       ELSE IF s.raised # "none" THEN Result(s.st, Undefined, s.raised)
       ELSE IF f.raised # "none" THEN Result(f.st, Undefined, f.raised)
       ELSE IF Truthy(f.ret)
       THEN Result([f.st EXCEPT !.scorm.connected = FALSE], Undefined, "none")
       ELSE IF e.raised # "none" THEN Result(e.st, Undefined, e.raised)
       ELSE IF es.raised # "none" THEN Result(es.st, Undefined, es.raised)
       ELSE Result(off, Undefined, "none")

terminate(st, h) ==
  IF ~st.scorm.connected THEN notConnected(st)
  ELSE
    LET g == status(st, Undefined, h)
        x == set(g.st, ExitKey(g.st), ExitValue(g.st, g.ret), h)
        u == IF ~st.scorm.updateStatusBeforeTerminate
             THEN Result(st, Undefined, "none")
             ELSE IF g.raised # "none" THEN g ELSE x
        s == save(u.st, h)
        f == Invoke(s.st, IF isV1(s.st) THEN "LMSFinish" ELSE "Terminate",
                    <<Str("")>>, h)
        e == lastErrorCode(f.st, h)
        es == errorString(e.st, e.ret, h)
    IN IF u.raised # "none" THEN Result(u.st, Undefined, u.raised)
       ELSE IF s.raised # "none" THEN Result(s.st, Undefined, s.raised)
       ELSE IF f.raised # "none" THEN Result(f.st, Undefined, f.raised)
       ELSE IF Truthy(f.ret)
       THEN Result([f.st EXCEPT !.scorm.connected = FALSE], Undefined, "none")
       ELSE IF e.raised # "none" THEN Result(e.st, Undefined, e.raised)
       ELSE Result(es.st, Undefined, es.raised)

\* constructor(version): the fields of the new instance, or InvalidVersion
NewScorm(version) ==
  [version |-> version, api |-> Null, connected |-> FALSE,
   updateStatusAfterInitialize |-> TRUE, updateStatusBeforeTerminate |-> TRUE]

\* a constructor that only rejects the versions it cannot tell from "unset"
constructor_truthy(version) ==
  IF ~Truthy(version)
  THEN [ok |-> FALSE, scorm |-> NewScorm(Undefined), raised |-> "InvalidVersion"]
  ELSE [ok |-> TRUE, scorm |-> NewScorm(version), raised |-> "none"]

constructor(version) ==
  IF version # Str(VERSION_1_2) /\ version # Str(VERSION_2004)
  THEN [ok |-> FALSE, scorm |-> NewScorm(Undefined), raised |-> "InvalidVersion"]
  ELSE [ok |-> TRUE, scorm |-> NewScorm(version), raised |-> "none"]

(***************************************************************************)
(* What the caller and the host may supply                                 *)
(***************************************************************************)
Tokens == {Undefined, Null, Str(VERSION_1_2), Str(VERSION_2004), Str(""),
           Str("1.1"), Str("2004.0"), Num(2004)}
HostAnswers == {Bool(TRUE), Bool(FALSE), Str("true"), Str("false")}
ErrCodes == {Num(101), Null}
Quiet == [begin |-> Bool(TRUE), finish |-> Bool(TRUE), commit |-> Bool(TRUE),
          err |-> Num(0)]
\* the answers a call can observe: begin-session and commit in initialize,
\* commit, end-session and the last error in terminate
InitializeOracles ==
  {[Quiet EXCEPT !.begin = b, !.commit = c] :
     b \in HostAnswers, c \in {Bool(TRUE), Bool(FALSE)}}
TerminateOracles ==
  {[Quiet EXCEPT !.finish = f, !.err = e] : f \in HostAnswers, e \in ErrCodes}
CommitOracles == {[Quiet EXCEPT !.commit = c] : c \in {Bool(TRUE), Bool(FALSE)}}
ErrorOracles == {[Quiet EXCEPT !.err = e] : e \in ErrCodes}
InitialStatuses == {Str(""), Str("not attempted")}
UserStatuses == {Str("completed"), Str("passed")}
UserKeys == {Str("cmi.core.session_time")}
UserValues == {Num(42), Str("42")}
UserCodes == {Num(101), Null}

WindowLists ==
  UNION {[1 .. k -> 0 .. NCtx] : k \in 1 .. MaxWindows}

\* a browser page: the global window sits in a frame of window 2, and every
\* other window is a top window, its own parent
BrowserParents == [c \in Ctx |-> IF c = GlobalWindow THEN 2 ELSE c]

\* other hierarchies a caller of findAPI can hand over: every window its own
\* parent; a cycle; no parent at all
Topologies ==
  { BrowserParents,
    [c \in Ctx |-> c],
    [c \in Ctx |-> IF c < NCtx THEN c + 1 ELSE 1],
    [c \in Ctx |-> NoWindow] }

NoSlots == [c \in Ctx |-> [API |-> FALSE, API_1484_11 |-> FALSE]]

SlotConfigs ==
  {sl \in [Ctx -> [API : BOOLEAN, API_1484_11 : BOOLEAN]] :
     SlotCount(sl) <= MaxSearchSlots}

(***************************************************************************)
(* The program: a page constructs the adapter and calls its public         *)
(* methods (findAPI is protected: initialize is its only caller here)      *)
(***************************************************************************)
Init ==
  /\ constructed = FALSE
  /\ scorm = NewScorm(Undefined)
  /\ \E s0 \in InitialStatuses :
       lms = [store |-> [k \in Keys |-> s0], open |-> FALSE,
              refused |-> FALSE]
  /\ slots = NoSlots
  /\ parent = BrowserParents
  /\ opener \in {NoWindow, NCtx}
  /\ lastOp = "none" /\ args = <<>> /\ ret = Undefined /\ raised = "none"
  /\ calls = <<>>
  /\ pc = "idle" /\ windows = <<>> /\ idx = 0 /\ attempts = 0
  /\ api1_2 = Undefined /\ api2004 = Undefined /\ passes = 0

St0 == [scorm |-> scorm, lms |-> lms, calls |-> <<>>]

\* the call op(a) ended with method result r
Apply(op, a, r) ==
  /\ scorm' = r.st.scorm
  /\ lms' = r.st.lms
  /\ calls' = r.st.calls
  /\ ret' = r.ret
  /\ raised' = r.raised
  /\ lastOp' = op
  /\ args' = a
  /\ UNCHANGED <<constructed, slots, parent, opener, searchVars>>

Construct ==
  /\ pc = "idle" /\ ~constructed
  /\ \E tok \in Tokens :
       LET c == constructor(tok)
       IN /\ constructed' = c.ok
          /\ scorm' = c.scorm
          /\ raised' = c.raised
          /\ ret' = Undefined
          /\ lastOp' = "constructor"
          /\ args' = <<tok>>
          /\ calls' = <<>>
  /\ UNCHANGED <<lms, slots, parent, opener, searchVars>>

\* scorm.updateStatusAfterInitialize = b; scorm.updateStatusBeforeTerminate = b
SetOption ==
  /\ pc = "idle" /\ constructed
  /\ \E b \in BOOLEAN :
       \/ scorm' = [scorm EXCEPT !.updateStatusAfterInitialize = b]
       \/ scorm' = [scorm EXCEPT !.updateStatusBeforeTerminate = b]
  /\ UNCHANGED <<constructed, lms, slots, parent, opener, lastOp, args, ret,
                 raised, calls, searchVars>>

\* the host page adds or removes an API object
SlotChange ==
  /\ pc = "idle"
  /\ \E c \in Ctx, n \in SlotNames :
       /\ slots' = [slots EXCEPT ![c][n] = ~@]
       /\ SlotCount(slots') <= MaxSlots
  /\ UNCHANGED <<constructed, scorm, lms, parent, opener, lastOp, args, ret,
                 raised, calls, searchVars>>

Initialize ==
  /\ pc = "idle" /\ constructed
  /\ \E h \in InitializeOracles :
       Apply("initialize", <<>>, initialize(St0, slots, parent, opener, h))

Terminate ==
  /\ pc = "idle" /\ constructed
  /\ \E h \in TerminateOracles : Apply("terminate", <<>>, terminate(St0, h))

Status ==
  /\ pc = "idle" /\ constructed
  /\ \E v \in UserStatuses \cup {Undefined} :
       Apply("status", <<v>>, status(St0, v, Quiet))

Get ==
  /\ pc = "idle" /\ constructed
  /\ \E k \in UserKeys : Apply("get", <<k>>, get(St0, k, Quiet))

Set ==
  /\ pc = "idle" /\ constructed
  /\ \E k \in UserKeys, v \in UserValues :
       Apply("set", <<k, v>>, set(St0, k, v, Quiet))

Save ==
  /\ pc = "idle" /\ constructed
  /\ \E h \in CommitOracles : Apply("save", <<>>, save(St0, h))

LastErrorCode ==
  /\ pc = "idle" /\ constructed
  /\ \E h \in ErrorOracles : Apply("lastErrorCode", <<>>, lastErrorCode(St0, h))

ErrorString ==
  /\ pc = "idle" /\ constructed
  /\ \E code \in UserCodes :
       Apply("errorString", <<code>>, errorString(St0, code, Quiet))

Next ==
  \/ Construct
  \/ SetOption
  \/ SlotChange
  \/ Initialize
  \/ Terminate
  \/ Status
  \/ Get
  \/ Set
  \/ Save
  \/ LastErrorCode
  \/ ErrorString

Spec == Init /\ [][Next]_vars

(***************************************************************************)
(* findAPI(windows) stepped through its loop, on every receiver the method *)
(* is written for: a pinned instance (fresh, or holding the handle of an   *)
(* earlier discovery) and the unpinned instance of its else-branch, the    *)
(* one `new SCORM()` is documented to give (the constructor's guard, as    *)
(* written, refuses it: Spec never holds an unpinned instance).            *)
(***************************************************************************)
SlotOf(v) == IF v = VERSION_1_2 THEN "API" ELSE "API_1484_11"

Receivers ==
  {NewScorm(Undefined)} \cup
  UNION {{[NewScorm(Str(v)) EXCEPT !.api = a] :
            a \in {Null, ApiObject(GlobalWindow, SlotOf(v))}} :
         v \in {VERSION_1_2, VERSION_2004}}

InitSearch ==
  /\ constructed = TRUE
  /\ scorm \in Receivers
  /\ lms = [store |-> [k \in Keys |-> Str("")], open |-> FALSE,
            refused |-> FALSE]
  /\ slots \in SlotConfigs
  /\ parent \in Topologies
  /\ opener = NoWindow
  /\ lastOp = "findAPI" /\ args = <<>> /\ ret = Undefined /\ raised = "none"
  /\ calls = <<>>
  /\ pc = "for" /\ windows \in WindowLists /\ idx = 1 /\ attempts = 0
  /\ api1_2 = InitialFlag(scorm.version, VERSION_1_2)
  /\ api2004 = InitialFlag(scorm.version, VERSION_2004)
  /\ passes = 0

\* for (let window of windows) { let attempts = 0
ForStep ==
  /\ pc = "for"
  /\ IF idx > Len(windows)
     THEN pc' = "resolve" /\ UNCHANGED <<attempts, passes>>
     ELSE pc' = "body" /\ attempts' = 0 /\ passes' = 0
  /\ UNCHANGED <<constructed, scorm, lms, envVars, lastOp, args, ret, raised,
                 calls, windows, idx, api1_2, api2004>>

\* do { ...; if (api1_2 && api2004) break both }
BodyStep ==
  /\ pc = "body"
  /\ LET b == LoopBody(slots, windows[idx], api1_2, api2004)
     IN /\ api1_2' = b.a1
        /\ api2004' = b.a2
        /\ pc' = IF b.threw THEN "done"
                 ELSE IF Truthy(b.a1) /\ Truthy(b.a2) THEN "resolve"
                 ELSE "cond"
        /\ raised' = IF b.threw THEN "TypeError" ELSE raised
  /\ passes' = IF passes > SearchDepth + 2 THEN passes ELSE passes + 1
  /\ UNCHANGED <<constructed, scorm, lms, envVars, lastOp, args, ret, calls,
                 windows, idx, attempts>>

\* while (...)
CondStep ==
  /\ pc = "cond"
  /\ LET c == LoopCondition(parent, windows[idx], attempts)
     IN /\ attempts' = c.attempts
        /\ pc' = IF c.go THEN "body" ELSE "for"
        /\ idx' = IF c.go THEN idx ELSE idx + 1
  /\ UNCHANGED <<constructed, scorm, lms, envVars, lastOp, args, ret, raised,
                 calls, windows, api1_2, api2004, passes>>

ResolveStep ==
  /\ pc = "resolve"
  /\ LET r == Resolve(scorm, slots)
     IN scorm' = r.scorm /\ raised' = r.raised
  /\ pc' = "done"
  /\ UNCHANGED <<constructed, lms, envVars, lastOp, args, ret, calls, windows,
                 idx, attempts, api1_2, api2004, passes>>

NextSearch ==
  \/ ForStep
  \/ BodyStep
  \/ CondStep
  \/ ResolveStep

\* the call is synchronous: once entered it runs to its end
SpecSearch == InitSearch /\ [][NextSearch]_vars /\ WF_vars(NextSearch)

(***************************************************************************)
(* Properties                                                              *)
(***************************************************************************)
Recognized == {Str(VERSION_1_2), Str(VERSION_2004)}

BeginPrims == {"LMSInitialize", "Initialize"}
CommitPrims == {"LMSCommit", "Commit"}
SetPrims == {"LMSSetValue", "SetValue"}

CallsTo(cs, prims) == SelectSeq(cs, LAMBDA c : c.prim \in prims)

StatusKey(version) ==
  IF version = Str(VERSION_1_2) THEN "cmi.core.lesson_status"
  ELSE "cmi.completion_status"

FieldAccess ==
  /\ lastOp' \in {"get", "set", "status", "save", "lastErrorCode",
                  "errorString"}
  /\ Get \/ Set \/ Status \/ Save \/ LastErrorCode \/ ErrorString

\* C1: constructing with no version token raises nothing and yields an
\* instance with version unset, connected = false and apiHandle = null.
C1_NoTokenConstructs ==
  (lastOp = "constructor" /\ args = <<Undefined>>) =>
    /\ constructed
    /\ raised = "none"
    /\ scorm.version = Undefined
    /\ ~scorm.connected
    /\ scorm.api = Null

\* C2: a string token other than "1.2" and "2004" makes construction fail
\* with InvalidVersion and no instance; each of the two literals constructs
\* an instance whose version is that literal.
C2_VersionTokenChecked ==
  (lastOp = "constructor" /\ args[1].t = "string") =>
    IF args[1] \in Recognized
    THEN constructed /\ raised = "none" /\ scorm.version = args[1]
    ELSE ~constructed /\ raised = "InvalidVersion"

C2_Witness ==
  /\ lastOp = "constructor"
  /\ args = <<Str("2004.0")>>
  /\ ~constructed
  /\ raised = "InvalidVersion"

\* C3: while connected = false, each of get, set, status, save,
\* lastErrorCode and errorString returns null, invokes no host primitive and
\* leaves the adapter (and the host) unchanged.
C3_DisconnectedCallsAreInert ==
  [][(constructed /\ ~scorm.connected /\ FieldAccess) =>
       /\ ret' = Null
       /\ raised' = "none"
       /\ calls' = <<>>
       /\ UNCHANGED <<scorm, lms>>]_vars

\* a field access made after a session has ended: the instance still holds
\* the host object it could have dispatched to
C3_Witness ==
  /\ constructed
  /\ ~scorm.connected
  /\ scorm.api.t = "object"
  /\ lastOp \in {"get", "set", "status", "save", "lastErrorCode", "errorString"}
  /\ ret = Null
  /\ calls = <<>>

\* C4: set(key, value) on a Connected instance with a non-string value
\* dispatches the set-value primitive of the instance's version with the
\* string representation of the value, for v1 and for v2004.
C4_SetDispatchesString ==
  (lastOp = "set" /\ scorm.connected /\ raised = "none"
     /\ args[2].t # "string") =>
    calls = << [prim |-> IF scorm.version = Str(VERSION_1_2)
                         THEN "LMSSetValue" ELSE "SetValue",
                a |-> <<args[1], Str(JSString(args[2]))>>] >>

\* C5: initialize() on a Connected instance runs no discovery, invokes no
\* host primitive and leaves connected true; over two consecutive
\* initialize() calls begin-session is invoked exactly once.
C5_SecondInitializeIsNoOp ==
  [][(constructed /\ scorm.connected /\ lastOp' = "initialize"
        /\ Initialize) =>
       /\ calls' = <<>>
       /\ raised' = "none"
       /\ UNCHANGED <<scorm, lms>>
       /\ scorm'.connected
       /\ (lastOp = "initialize" =>
             Len(CallsTo(calls \o calls', BeginPrims)) = 1)]_vars

C5_Witness ==
  /\ lastOp = "initialize"
  /\ scorm.connected
  /\ calls = <<>>
  /\ lms.open

\* the objects held in the slot of version v by the searched windows
SearchedHandles(v) ==
  {ApiObject(c, SlotOf(v)) :
     c \in {d \in Searched(parent, windows) : slots[d][SlotOf(v)]}}

\* C6: when findAPI succeeds on a version-pinned instance, apiHandle is the
\* object in the pinned version's slot of one of the searched windows (a
\* listed window or one of its ancestors).
C6_PinnedHandleFromSearched ==
  [][(pc = "resolve" /\ Truthy(scorm.version) /\ raised' = "none") =>
       scorm'.api \in SearchedHandles(scorm.version.s)]_vars

C9_NotAttemptedBecomesIncomplete ==
  [][(constructed /\ ~scorm.connected /\ scorm.updateStatusAfterInitialize
        /\ scorm'.connected
        /\ lms.store[StatusKey(scorm'.version)] = Str("not attempted")
        /\ Initialize) =>
       /\ lms'.store[StatusKey(scorm'.version)] = Str("incomplete")
       /\ Len(CallsTo(calls', CommitPrims)) = 1]_vars

C9_Witness ==
  /\ lastOp = "initialize"
  /\ scorm.connected
  /\ scorm.version = Str(VERSION_2004)
  /\ Len(calls) = 4
  /\ calls[3] = [prim |-> "SetValue",
                 a |-> <<Str("cmi.completion_status"), Str("incomplete")>>]
  /\ calls[4].prim = "Commit"
  /\ lms.store["cmi.completion_status"] = Str("incomplete")
  /\ lms.store["cmi.core.lesson_status"] = Str("not attempted")

ExitKeys == {Str("cmi.core.exit"), Str("cmi.exit")}

ExitWrites(cs) ==
  SelectSeq(cs, LAMBDA c : c.prim \in SetPrims /\ c.a[1] \in ExitKeys)

\* C10: terminate() on a Connected instance with
\* updateStatusBeforeTerminate = true writes the exit field of its version
\* (cmi.core.exit for v1, cmi.exit for v2004) once: "logout" (v1) or
\* "normal" (v2004) when the completion status is "completed" or "passed",
\* "suspend" for every other completion status.
C10_ExitReason ==
  [][(constructed /\ scorm.connected /\ scorm.updateStatusBeforeTerminate
        /\ lastOp' = "terminate" /\ Terminate) =>
       LET v1 == scorm.version = Str(VERSION_1_2)
           completion == lms.store[StatusKey(scorm.version)]
           done == completion \in {Str("completed"), Str("passed")}
       IN ExitWrites(calls') =
            << [prim |-> IF v1 THEN "LMSSetValue" ELSE "SetValue",
                a |-> << IF v1 THEN Str("cmi.core.exit") ELSE Str("cmi.exit"),
                         IF ~done THEN Str("suspend")
                         ELSE IF v1 THEN Str("logout") ELSE Str("normal") >>]
            >>]_vars

C10_Witness ==
  /\ lastOp = "terminate"
  /\ scorm.version = Str(VERSION_1_2)
  /\ lms.store["cmi.core.lesson_status"] = Str("completed")
  /\ ExitWrites(calls) =
       << [prim |-> "LMSSetValue",
           a |-> <<Str("cmi.core.exit"), Str("logout")>>] >>

EndPrims == {"LMSFinish", "Terminate"}
GetPrims == {"LMSGetValue", "GetValue"}

\* C11: terminate() on a Connected instance leaves connected = false exactly
\* when the end-session primitive answered with success (a truthy answer);
\* after a failed one connected is still true, so a later get, set or save
\* is dispatched to the host and a later terminate() invokes end-session
\* again.
C11_FailedEndSessionStaysConnected ==
  [][(constructed /\ scorm.connected) =>
       /\ \A h \in TerminateOracles :
            (lastOp' = "terminate" /\ Apply("terminate", <<>>, terminate(St0, h)))
              => (scorm'.connected <=> ~Truthy(h.finish))
       /\ (lastOp = "terminate" /\ lastOp' = "terminate" /\ Terminate) =>
            Len(CallsTo(calls', EndPrims)) = 1
       /\ (lastOp = "terminate" /\ lastOp' = "get" /\ Get) =>
            Len(CallsTo(calls', GetPrims)) = 1
       /\ (lastOp = "terminate" /\ lastOp' = "set" /\ Set) =>
            Len(CallsTo(calls', SetPrims)) = 1
       /\ (lastOp = "terminate" /\ lastOp' = "save" /\ Save) =>
            Len(CallsTo(calls', CommitPrims)) = 1]_vars

\* a terminate() whose end-session failed: the host still has the session
\* open and the instance is still connected
C11_Witness ==
  /\ lastOp = "terminate"
  /\ raised = "none"
  /\ Len(CallsTo(calls, EndPrims)) = 1
  /\ lms.open
  /\ scorm.connected

PublicOps == {"initialize", "terminate", "get", "set", "status", "save",
              "lastErrorCode", "errorString"}

\* C12: after construction no call of initialize, terminate, get, set,
\* status, save, lastErrorCode or errorString raises an error to its
\* caller, whatever the host answers and whatever code is passed.
C12_NothingRaisedAfterConstruction ==
  lastOp \in PublicOps => raised = "none"

\* the listed windows of a list without null entries
Listed(ws) == {ws[k] : k \in 1 .. Len(ws)}

\* C13: on a pinned instance, when the slot of the pinned version is absent
\* from every listed window but present on an ancestor of one, or absent
\* from the first listed window but present on a later one, findAPI succeeds
\* and records that slot's object as apiHandle.
C13_FoundOnAncestorOrLaterWindow ==
  [][(pc' = "done" /\ pc # "done" /\ Truthy(scorm.version)
        /\ NoWindow \notin Listed(windows)
        /\ ~slots[windows[1]][SlotOf(scorm.version.s)]
        /\ SearchedHandles(scorm.version.s) # {}) =>
       /\ raised' = "none"
       /\ scorm'.api \in SearchedHandles(scorm.version.s)]_vars

CommitThenEnd(cs) ==
  \E i \in 1 .. Len(cs) - 1 :
    /\ cs[i].prim \in CommitPrims
    /\ cs[i + 1].prim \in EndPrims
    /\ \A j \in 1 .. Len(cs) :
         /\ cs[j].prim \in CommitPrims => j = i
         /\ cs[j].prim \in EndPrims => j = i + 1
         /\ (cs[j].prim \in SetPrims /\ cs[j].a[1] \in ExitKeys) => j < i

\* C14: in every terminate() on a Connected instance, with
\* updateStatusBeforeTerminate true or false, the host receives the exit
\* write (if any), then one commit, then one end-session, in that order.
C14_ExitCommitEndOrder ==
  [][(constructed /\ scorm.connected /\ lastOp' = "terminate" /\ Terminate) =>
       /\ CommitThenEnd(calls')
       /\ Len(ExitWrites(calls')) =
            (IF scorm.updateStatusBeforeTerminate THEN 1 ELSE 0)]_vars

\* a terminate() with updateStatusBeforeTerminate = false: no exit write,
\* commit then end-session
C14_Witness ==
  /\ lastOp = "terminate"
  /\ ~scorm.updateStatusBeforeTerminate
  /\ Len(calls) >= 2
  /\ calls[1].prim \in CommitPrims
  /\ calls[2].prim \in EndPrims

\* the discovery initialize() would run in the current state
Discovery == findAPI(St0, slots, parent, <<GlobalWindow, opener>>)

\* C15: when discovery fails inside initialize() (the required slot is not
\* found, or the opener is null and its slot is read), initialize() leaves
\* connected = false, invokes no host primitive and raises nothing.
C15_FailedDiscoveryIsAbsorbed ==
  [][(constructed /\ ~scorm.connected /\ lastOp' = "initialize"
        /\ Discovery.raised # "none" /\ Initialize) =>
       /\ ~scorm'.connected
       /\ calls' = <<>>
       /\ raised' = "none"
       /\ lms' = lms]_vars

\* an initialize() that met a null opener with no slot on the global window
C15_Witness ==
  /\ lastOp = "initialize"
  /\ ~scorm.connected
  /\ opener = NoWindow
  /\ Discovery.raised = "TypeError"
  /\ calls = <<>>
  /\ raised = "none"

\* C16: when discovery succeeds inside initialize() on a Disconnected
\* instance, connected is true afterwards whether begin-session answered
\* with success or with failure.
C16_ConnectedWhateverBeginAnswers ==
  [][(constructed /\ ~scorm.connected /\ Discovery.raised = "none") =>
       \A h \in InitializeOracles :
         (lastOp' = "initialize"
            /\ Apply("initialize", <<>>,
                     initialize(St0, slots, parent, opener, h)))
           => /\ scorm'.connected
              /\ Len(CallsTo(calls', BeginPrims)) = 1
              /\ lms'.refused = ~Truthy(h.begin)]_vars

\* connected although the host answered begin-session with a failure
C16_Witness ==
  /\ lastOp = "initialize"
  /\ Len(CallsTo(calls, BeginPrims)) = 1
  /\ lms.refused
  /\ scorm.connected

\* C17: whenever findAPI fails (raises), apiHandle and version are what
\* they were before the call, also when an earlier discovery had recorded a
\* handle.
C17_FailedFindAPILeavesInstance ==
  [][(pc # "done" /\ pc' = "done" /\ raised' # "none") =>
       /\ scorm'.api = scorm.api
       /\ scorm'.version = scorm.version]_vars

\* C18: connected = true implies apiHandle is a host object; and apiHandle
\* comes to hold a host object only in an initialize() whose discovery
\* succeeded (it holds none after construction).
C18_HandleIffDiscovered ==
  /\ [](constructed /\ scorm.connected => scorm.api.t = "object")
  /\ [](~constructed => scorm.api = Null)
  /\ [][(scorm.api.t # "object" /\ scorm'.api.t = "object") =>
          /\ lastOp' = "initialize"
          /\ ~scorm.connected
          /\ Discovery.raised = "none"
          /\ scorm'.api = Discovery.st.scorm.api]_vars

\* connected, holding the object of the global window's slot
C18_Witness ==
  /\ scorm.connected
  /\ scorm.api = ApiObject(GlobalWindow, "API")
  /\ slots[GlobalWindow].API

\* C19: once version is one of the two tokens, no initialize, terminate,
\* discovery or field access changes it, also not a re-initialize against a
\* host that now exposes only the other version's slot.
C19_VersionNeverChanges ==
  [][Truthy(scorm.version) => scorm'.version = scorm.version]_vars

\* a v1 instance that had a session (the status it wrote is "incomplete"),
\* re-initialized while the global window exposes only API_1484_11
C19_Witness ==
  /\ lastOp = "initialize"
  /\ scorm.version = Str(VERSION_1_2)
  /\ lms.store["cmi.core.lesson_status"] = Str("incomplete")
  /\ ~lms.open
  /\ slots[GlobalWindow].API_1484_11
  /\ ~slots[GlobalWindow].API
  /\ ~scorm.connected

PrimsOf(version) ==
  IF version = Str(VERSION_1_2) THEN V1Prims ELSE V2004Prims

\* a step that is a call of the adapter: the steps of the page's options
\* and of the host's slots are the ones that change those
MethodCall ==
  /\ slots' = slots
  /\ scorm'.updateStatusAfterInitialize = scorm.updateStatusAfterInitialize
  /\ scorm'.updateStatusBeforeTerminate = scorm.updateStatusBeforeTerminate

\* C20: every get-value, set-value, commit, get-last-error,
\* get-error-string and end-session primitive the host receives comes after
\* a begin-session received since the last end-session it answered with
\* success, and every primitive received is of the instance's version.
C20_PrimitivesInsideSession ==
  [][\A i \in 1 .. Len(calls') :
       MethodCall =>
         /\ calls'[i].prim \in PrimsOf(scorm'.version)
         /\ calls'[i].prim \notin BeginPrims =>
              \/ lms.open
              \/ \E j \in 1 .. i - 1 : calls'[j].prim \in BeginPrims
         /\ (calls'[i].prim \in EndPrims /\ ~lms'.open) => i = Len(calls')]_vars

\* a second session: begin-session received again after a successful
\* end-session (the status left by the first session is still "incomplete")
C20_Witness ==
  /\ lastOp = "initialize"
  /\ scorm.connected
  /\ Len(calls) = 2
  /\ calls[1].prim \in BeginPrims
  /\ calls[2].prim \in GetPrims
  /\ lms.store[StatusKey(scorm.version)] = Str("incomplete")

====
